---- MODULE Spec2Model ----
(***************************************************************************)
(* tvg-lottie2gif: the command-line driver that converts Lottie files to   *)
(* GIF through the ThorVG library.  The repository holds two revisions of  *)
(* the tool:                                                               *)
(*    src/unnamed/part_000                (definitions without prefix)     *)
(*    src/tools/lottie2gif/lottie2gif.cpp (definitions prefixed l2g_)      *)
(* The variable prog says which of the two programs is running.            *)
(*                                                                         *)
(* A C string is a tuple of one-character strings.                         *)
(***************************************************************************)
EXTENDS Integers, Sequences, FiniteSets, Bags, TLC

VARIABLES
    prog,        \* which of the two programs runs
    argv,        \* argv[1 .. argc-1]
    i,           \* setup: index into argv
    width, height, fps, r, g, b, background, outputFile,   \* App's fields
    inputs,      \* setup: the paths collected from argv
    warned,      \* unknown-option warnings printed so far
    usage,       \* helpMsg was called
    pc,          \* "args", "inputs", "done" (setup returned) or "crashed"
    ret,         \* what setup returned, -1 before that
    k,           \* setup: index of the next input
    open,        \* library sessions open: inits that succeeded minus terms
    handed,      \* bag of the <<in, out>> pairs convert was called with
    last         \* the latest call of convert

vars == <<prog, argv, i, width, height, fps, r, g, b, background, outputFile,
          inputs, warned, usage, pc, ret, k, open, handed, last>>

\* ---------------------------------------------------------------- bounds
\* Longest command line explored (argc - 1).
MaxArgs == 3

\* ------------------------------------------------------------- C strings
NULL == <<"NULL">>

DecDigits == <<"0", "1", "2", "3", "4", "5", "6", "7", "8", "9">>

HexDigits == <<"0", "1", "2", "3", "4", "5", "6", "7", "8", "9",
               "a", "b", "c", "d", "e", "f">>

HexUpper == <<"0", "1", "2", "3", "4", "5", "6", "7", "8", "9",
              "A", "B", "C", "D", "E", "F">>

Range(s) == {s[n] : n \in 1..Len(s)}

IndexOf(s, c) == CHOOSE n \in 1..Len(s) : s[n] = c

isspace(c) == c \in {" ", "\t", "\n"}

RECURSIVE SkipSpace(_)
SkipSpace(s) ==
    IF s # <<>> /\ isspace(Head(s)) THEN SkipSpace(Tail(s)) ELSE s

RECURSIVE DecValue(_, _)
DecValue(s, acc) ==
    IF s = <<>> \/ Head(s) \notin Range(DecDigits) THEN acc
    ELSE DecValue(Tail(s), acc * 10 + (IndexOf(DecDigits, Head(s)) - 1))

\* atoi: leading white space, an optional sign, then the longest run of
\* decimal digits; 0 when there is none.
atoi(s) ==
    LET t == SkipSpace(s)
        signed == t # <<>> /\ Head(t) \in {"-", "+"}
        u == IF signed THEN Tail(t) ELSE t
        v == DecValue(u, 0)
    IN  IF t # <<>> /\ Head(t) = "-" THEN 0 - v ELSE v

IsHex(c) == c \in Range(HexDigits) \cup Range(HexUpper)

HexOf(c) ==
    IF c \in Range(HexDigits) THEN IndexOf(HexDigits, c) - 1
    ELSE IndexOf(HexUpper, c) - 1

RECURSIVE HexValue(_, _)
HexValue(s, acc) ==
    IF s = <<>> \/ ~IsHex(Head(s)) THEN acc
    ELSE HexValue(Tail(s), acc * 16 + HexOf(Head(s)))

\* strtol(s, NULL, 16): white space, optional sign, optional 0x prefix
\* (taken only when a hex digit follows it), then hex digits.
strtol16(s) ==
    LET t == SkipSpace(s)
        signed == t # <<>> /\ Head(t) \in {"-", "+"}
        u == IF signed THEN Tail(t) ELSE t
        prefixed == /\ Len(u) >= 3
                    /\ u[1] = "0"
                    /\ u[2] \in {"x", "X"}
                    /\ IsHex(u[3])
        d == IF prefixed THEN SubSeq(u, 3, Len(u)) ELSE u
        v == HexValue(d, 0)
    IN  IF t # <<>> /\ Head(t) = "-" THEN 0 - v ELSE v

\* strchr: position of the first c in s, 0 for a null result.
strchr(s, c) ==
    IF c \in Range(s) THEN CHOOSE n \in 1..Len(s) :
                              s[n] = c /\ \A m \in 1..(n - 1) : s[m] # c
    ELSE 0

\* The string that starts at pointer s + n.
From(s, n) == SubSeq(s, n + 1, Len(s))


\* ------------------------------------------------------- float arithmetic
\* An IEEE-754 single is <<m, e>>, the value m * 2^e, with 2^23 <= m < 2^24,
\* or <<0, 0>> for zero.  Every operation rounds to nearest, ties to even.
Two23 == 8388608
Two24 == 16777216
Two25 == 33554432

FZero == <<0, 0>>

RECURSIVE NormUp(_, _)
NormUp(m, e) ==
    IF m = 0 THEN FZero
    ELSE IF m < Two23 THEN NormUp(2 * m, e - 1)
    ELSE <<m, e>>

\* Round the exact value (n + guard/2 + something in (0, 1/2) if sticky) * 2^e
\* to 24 bits.
RECURSIVE RoundF(_, _, _, _)
RoundF(n, e, guard, sticky) ==
    IF n >= Two24 THEN RoundF(n \div 2, e + 1, n % 2, sticky \/ guard = 1)
    ELSE IF n < Two23 THEN NormUp(n, e)
    ELSE LET up == guard = 1 /\ (sticky \/ n % 2 = 1)
             m1 == IF up THEN n + 1 ELSE n
         IN  IF m1 = Two24 THEN <<Two23, e + 1>> ELSE <<m1, e>>

\* static_cast<float>(uint32_t).  The uint32_t fields are held as the int
\* with the same 32 bits, so a negative v stands for 2^32 + v.
U32ToFloat(v) ==
    IF v >= 0 THEN RoundF(v, 0, 0, FALSE)
    ELSE LET a == 0 - v
             q == a \div 256
             rem == a % 256
             down == rem > 128 \/ (rem = 128 /\ q % 2 = 0)
             m == IF down THEN Two24 - q - 1 ELSE Two24 - q
         IN  IF m = Two24 THEN <<Two23, 9>> ELSE <<m, 8>>

\* Long division, one quotient bit at a time, until the quotient has a guard
\* bit and the remainder tells the sticky bit.
RECURSIVE DivBits(_, _, _, _)
DivBits(q, rem, w, e) ==
    IF q >= Two25 THEN RoundF(q, e, 0, rem # 0)
    ELSE DivBits(2 * q + ((2 * rem) \div w), (2 * rem) % w, w, e - 1)

\* a / w for a float a and the float of the small positive integer w
FloatDiv(a, w) ==
    IF a[1] = 0 THEN FZero ELSE DivBits(a[1] \div w, a[1] % w, w, a[2])

\* w * s for the float of the small positive integer w and a float s
FloatMul(w, s) == RoundF(w * s[1], s[2], 0, FALSE)

FloatLess(x, y) ==
    IF x[1] = 0 THEN y[1] # 0
    ELSE IF y[1] = 0 THEN FALSE
    ELSE x[2] < y[2] \/ (x[2] = y[2] /\ x[1] < y[1])

\* std::min(x, y)
min(x, y) == IF FloatLess(y, x) THEN y ELSE x

\* ------------------------------------------------- command line and files
tA == <<"a", ".", "j", "s", "o", "n">>
tD == <<"d">>
tU == <<"u">>
tR == <<"-", "r">>
tF == <<"-", "f">>
tB == <<"-", "b">>
tO == <<"-", "o">>
tRes == <<"2", "0", "0", "x", "2", "0", "0">>
tZero == <<"0", "x", "1", "0", "0">>
tNeg == <<"-", "5", "x", "9">>
tNum == <<"2", "3">>

\* The tokens a command line is made of: a Lottie file, two directories, the
\* four options, and arguments for them.  tNeg is also an option nobody knows,
\* tNum also the name of a file that is not a Lottie file, and tRes and tZero
\* also paths that do not exist.
Tokens == {tA, tD, tU, tR, tF, tB, tO, tRes, tZero, tNeg, tNum}

RECURSIVE SeqsUpTo(_, _)
SeqsUpTo(S, n) ==
    IF n = 0 THEN {<<>>}
    ELSE LET shorter == SeqsUpTo(S, n - 1)
         IN  shorter \cup {Append(q, t) : q \in {x \in shorter : Len(x) = n - 1}, t \in S}

CommandLines == SeqsUpTo(Tokens, MaxArgs)

Slash == <<"/">>

\* The file system the run sees.  Every path is absolute.
File(name) == [name |-> name, dir |-> FALSE]
Dir(name) == [name |-> name, dir |-> TRUE]

pD == Slash \o tD
pU == Slash \o tU
pS == pD \o Slash \o <<"s">>
pG == pD \o Slash \o <<".", "g">>
pL == pS \o Slash \o <<"l">>

\* the names realpath resolves in the working directory, which is /
Exists == {tA, tNum, tD, tU}

Directories == {pD, pU, pS, pG, pL}

\* directories opendir can open (pU and pL are not readable)
Readable == {pD, pS, pG}

nE == <<"e", ".", "j", "s", "o", "n">>
nC == <<"$", "c", ".", "j", "s", "o", "n">>

Listing(path) ==
    CASE path = pD -> {Dir(<<"s">>), Dir(<<".", "g">>),
                       File(<<".", "h", ".", "j", "s", "o", "n">>),
                       File(<<"m", ".", "t", "x", "t">>)}
      [] path = pS -> {File(nE), File(nC), Dir(<<"l">>)}
      [] path = pG -> {File(<<"f", ".", "j", "s", "o", "n">>)}
      [] path = pL -> {File(<<"g", ".", "j", "s", "o", "n">>)}
      [] OTHER -> {}

\* the size the animation in a file reports once it is loaded
NaturalOf(path) ==
    CASE path = tA -> <<100, 50>>
      [] path = pS \o Slash \o nE -> <<50, 100>>
      [] path = pS \o Slash \o nC -> <<45, 90>>
      [] OTHER -> <<100, 100>>

\* ------------------------------------------------------------------ state
Progs == {"part_000", "lottie2gif"}

cfg == <<width, height, fps, r, g, b, background, outputFile>>
run == <<k, open, handed, last>>

NoSize == <<>>

\* what the library answers during one conversion: the first call that fails,
\* or "ok"
Outcomes == {"initFail", "genFail", "loadFail", "pictureFail", "saverFail",
             "saveFail", "syncFail", "ok"}

\* lottie2gif.cpp tests the results of init, load, save and sync only
l2g_Outcomes == {"initFail", "loadFail", "saveFail", "syncFail", "ok"}

Done(calls, ok, natural, applied, bg) ==
    [calls |-> calls, ok |-> ok, natural |-> natural, applied |-> applied,
     bg |-> bg]

NoConversion ==
    [in |-> <<>>, out |-> <<>>, before |-> 0]
    @@ Done(<<>>, FALSE, NoSize, NoSize, NoSize)

Init ==
    /\ prog \in Progs
    /\ argv \in CommandLines
    /\ i = 1
    /\ width = 600
    /\ height = 600
    /\ fps = 30
    /\ r = 0
    /\ g = 0
    /\ b = 0
    /\ background = FALSE
    /\ outputFile = <<>>
    /\ inputs = <<>>
    /\ warned = 0
    /\ usage = FALSE
    /\ pc = IF argv = <<>> THEN "inputs" ELSE "args"
    /\ ret = -1
    /\ k = 1
    /\ open = 0
    /\ handed = EmptyBag
    /\ last = NoConversion

\* the part of the state a conversion changes
Here == [open |-> open, handed |-> handed, last |-> last]

Becomes(st) ==
    /\ open' = st.open
    /\ handed' = st.handed
    /\ last' = st.last

Count(calls, c) == Cardinality({n \in 1..Len(calls) : calls[n] = c})

\* The footprint of one call of convert: a session is open after an init
\* that succeeded, and every term closes one.
Converted(st, in, out, res) ==
    [open |-> st.open + (IF res.calls = <<"init">> THEN 0 ELSE 1)
                      - Count(res.calls, "term"),
     handed |-> st.handed (+) SetToBag({<<in, out>>}),
     last |-> [in |-> in, out |-> out, before |-> st.open] @@ res]

Return(code, j) ==
    /\ pc' = "done"
    /\ ret' = code
    /\ i' = j

Continue(j) ==
    /\ i' = j + 1
    /\ pc' = IF j + 1 > Len(argv) THEN "inputs" ELSE "args"
    /\ ret' = ret

\* ------------------------------------------------- src/unnamed/part_000
validate(name) ==
    Len(name) > 5 /\ SubSeq(name, Len(name) - 4, Len(name)) = <<".", "j", "s", "o", "n">>

realPath(path) == IF path \in Exists THEN Slash \o path ELSE NULL

isDirectory(path) == path \in Directories

\* bool convert(in, out): the library calls made, in order, and the result,
\* when outcome is what the library answers
convertAs(outcome, natural, size, bg) ==
    LET sized == <<"init", "gen", "load", "picture", "getSize", "setSize",
                   "saverGen">>
        filled == IF background THEN Append(sized, "background") ELSE sized
    IN  CASE outcome = "initFail" ->
               Done(<<"init">>, FALSE, NoSize, NoSize, NoSize)
          [] outcome = "genFail" ->
               Done(<<"init", "gen">>, FALSE, NoSize, NoSize, NoSize)
          [] outcome = "loadFail" ->
               Done(<<"init", "gen", "load">>, FALSE, NoSize, NoSize, NoSize)
          [] outcome = "pictureFail" ->
               Done(<<"init", "gen", "load", "picture">>, FALSE, NoSize,
                    NoSize, NoSize)
          [] outcome = "saverFail" ->
               Done(sized, FALSE, natural, size, NoSize)
          [] outcome = "saveFail" ->
               Done(Append(filled, "save"), FALSE, natural, size, bg)
          [] outcome = "syncFail" ->
               Done(filled \o <<"save", "sync">>, FALSE, natural, size, bg)
          [] outcome = "ok" ->
               Done(filled \o <<"save", "sync", "term">>, TRUE, natural,
                    size, bg)

\* convert taking the file for generated as soon as save was called
convert_unsynced(in, out) ==
    LET natural == NaturalOf(in)
        w == natural[1]
        h == natural[2]
        scale == min(FloatDiv(U32ToFloat(width), w),
                     FloatDiv(U32ToFloat(height), h))
        size == <<FloatMul(w, scale), FloatMul(h, scale)>>
        bg == IF background THEN size ELSE NoSize
    IN  {[res EXCEPT !.ok = Count(res.calls, "save") = 1] :
           res \in {convertAs(o, natural, size, bg) : o \in Outcomes}}

\* every way convert(in, out) can go
convert(in, out) ==
    LET natural == NaturalOf(in)
        w == natural[1]
        h == natural[2]
        scaleX == FloatDiv(U32ToFloat(width), w)
        scaleY == FloatDiv(U32ToFloat(height), h)
        scale == min(scaleX, scaleY)
        size == <<FloatMul(w, scale), FloatMul(h, scale)>>
        bg == IF background THEN <<FloatMul(w, scale), FloatMul(h, scale)>>
              ELSE NoSize
    IN  {convertAs(o, natural, size, bg) : o \in Outcomes}

\* every state convertSingle(input) can leave when started in a state of sts
convertSingle(sts, input) ==
    LET out == IF outputFile = <<>>
               THEN SubSeq(input, 1, Len(input) - 5) \o <<".", "g", "i", "f">>
               ELSE outputFile
    IN  {Converted(st, input, out, res) : st \in sts, res \in convert(input, out)}

\* handleDirectory(path) started in a state of sts: its result, and every
\* state it can end in, readdir being free to return the entries in any order
\* and the library to answer each conversion as it likes.
RECURSIVE handleDirectory(_, _)
RECURSIVE entry(_, _, _)
RECURSIVE readdir(_, _, _)
handleDirectory(sts, path) ==
    IF path \notin Readable THEN [ret |-> FALSE, sts |-> sts]
    ELSE [ret |-> TRUE, sts |-> readdir(sts, path, Listing(path))]

\* entry without the test for a leading "."
entry_dotted(sts, path, ent) ==
    LET fullpath == path \o Slash \o ent.name
    IN  IF ent.dir THEN handleDirectory(sts, fullpath).sts
        ELSE IF validate(ent.name) THEN convertSingle(sts, fullpath)
        ELSE sts

\* the body of the while loop, for the entry readdir returned
entry(sts, path, ent) ==
    LET fullpath == path \o Slash \o ent.name
    IN  IF Head(ent.name) = "." THEN sts
        ELSE IF ent.dir THEN handleDirectory(sts, fullpath).sts
        ELSE IF validate(ent.name) THEN convertSingle(sts, fullpath)
        ELSE sts

\* The while loop over the entries readdir has not returned yet.  An entry
\* that leaves the state alone does so wherever it comes, so those are taken
\* together; the others are taken in every order.
readdir(sts, path, todo) ==
    IF todo = {} THEN sts
    ELSE LET after == [ent \in todo |-> entry(sts, path, ent)]
             idle == {ent \in todo : after[ent] = sts}
         IN  IF idle # {} THEN readdir(sts, path, todo \ idle)
             ELSE UNION {readdir(after[ent], path, todo \ {ent}) : ent \in todo}

\* what strtol(nullptr, ...) may leave in c when it does not crash
WildLongs == {0}

\* one turn of the loop over argv in setup
setup_arg ==
    /\ prog = "part_000"
    /\ pc = "args"
    /\ LET p == argv[i]
           hasArg == i + 1 <= Len(argv)
           arg == IF hasArg THEN argv[i + 1] ELSE NULL
           j == IF hasArg THEN i + 1 ELSE i
           opt == IF Len(p) >= 2 THEN p[2] ELSE ""
           x == strchr(arg, "x")
       IN  IF Head(p) # "-"
           THEN /\ inputs' = Append(inputs, p)
                /\ Continue(i)
                /\ UNCHANGED <<cfg, warned>>
           ELSE CASE opt = "r" ->
                       IF arg = NULL \/ x = 0
                       THEN Return(1, j) /\ UNCHANGED <<cfg, inputs, warned>>
                       ELSE /\ width' = atoi(arg)
                            /\ height' = atoi(From(arg, x))
                            /\ Continue(j)
                            /\ UNCHANGED <<fps, r, g, b, background,
                                           outputFile, inputs, warned>>
                  [] opt = "f" ->
                       /\ fps' = IF arg # NULL THEN atoi(arg) ELSE fps
                       /\ Continue(j)
                       /\ UNCHANGED <<width, height, r, g, b, background,
                                      outputFile, inputs, warned>>
                  [] opt = "b" ->
                       \/ /\ arg = NULL
                          /\ pc' = "crashed"
                          /\ UNCHANGED <<i, ret, cfg, inputs, warned>>
                       \/ \E c \in IF arg = NULL THEN WildLongs
                                   ELSE {strtol16(arg)} :
                            /\ r' = (c \div 65536) % 256
                            /\ g' = (c \div 256) % 256
                            /\ b' = c % 256
                            /\ background' = TRUE
                            /\ Continue(j)
                            /\ UNCHANGED <<width, height, fps, outputFile,
                                           inputs, warned>>
                  [] opt = "o" ->
                       /\ outputFile' = IF arg # NULL THEN arg ELSE <<>>
                       /\ Continue(j)
                       /\ UNCHANGED <<width, height, fps, r, g, b, background,
                                      inputs, warned>>
                  [] OTHER ->
                       /\ warned' = warned + 1
                       /\ Continue(j)
                       /\ UNCHANGED <<cfg, inputs>>
    /\ UNCHANGED <<prog, argv, usage, run>>

\* no input on the command line: the usage text, and 0
setup_help ==
    /\ prog = "part_000"
    /\ pc = "inputs"
    /\ inputs = <<>>
    /\ usage' = TRUE
    /\ pc' = "done"
    /\ ret' = 0
    /\ UNCHANGED <<prog, argv, i, cfg, inputs, warned, run>>

\* one turn of the loop over the inputs in setup
setup_input ==
    /\ prog = "part_000"
    /\ pc = "inputs"
    /\ k <= Len(inputs)
    /\ k' = k + 1
    /\ LET in == inputs[k]
           path == realPath(in)
       IN  IF path = NULL
           THEN UNCHANGED <<open, handed, last>>
           ELSE IF isDirectory(path)
           THEN \E s \in handleDirectory({Here}, path).sts : Becomes(s)
           ELSE IF ~validate(in)
           THEN UNCHANGED <<open, handed, last>>
           ELSE \E s \in convertSingle({Here}, in) : Becomes(s)
    /\ UNCHANGED <<prog, argv, i, cfg, inputs, warned, usage, pc, ret>>

\* setup_return telling a failed conversion by the exit code
setup_return_failing ==
    /\ prog = "part_000"
    /\ pc = "inputs"
    /\ inputs # <<>>
    /\ k > Len(inputs)
    /\ pc' = "done"
    /\ ret' = IF handed = EmptyBag \/ last.ok THEN 0 ELSE 1
    /\ UNCHANGED <<prog, argv, i, cfg, inputs, warned, usage, run>>

\* the loop over the inputs is over: 0
setup_return ==
    /\ prog = "part_000"
    /\ pc = "inputs"
    /\ inputs # <<>>
    /\ k > Len(inputs)
    /\ pc' = "done"
    /\ ret' = 0
    /\ UNCHANGED <<prog, argv, i, cfg, inputs, warned, usage, run>>

\* ------------------------------------ src/tools/lottie2gif/lottie2gif.cpp
l2g_validate(lottieName) ==
    ~(\/ Len(lottieName) <= 5
      \/ SubSeq(lottieName, Len(lottieName) - 4, Len(lottieName)) # <<".", "j", "s", "o", "n">>)

l2g_realPath(path) == IF path \in Exists THEN Slash \o path ELSE NULL

l2g_isDirectory(path) == path \in Directories

\* bool convert(in, out): the library calls made, in order, and the result,
\* when outcome is what the library answers
l2g_convertAs(outcome, natural, size, bg) ==
    LET sized == <<"init", "gen", "picture", "load", "getSize", "setSize",
                   "saverGen">>
        filled == IF background THEN Append(sized, "background") ELSE sized
    IN  CASE outcome = "initFail" ->
               Done(<<"init">>, FALSE, NoSize, NoSize, NoSize)
          [] outcome = "loadFail" ->
               Done(<<"init", "gen", "picture", "load">>, FALSE, NoSize,
                    NoSize, NoSize)
          [] outcome = "saveFail" ->
               Done(filled \o <<"save", "term">>, FALSE, natural, size, bg)
          [] outcome = "syncFail" ->
               Done(filled \o <<"save", "sync", "term">>, FALSE, natural,
                    size, bg)
          [] outcome = "ok" ->
               Done(filled \o <<"save", "sync", "term">>, TRUE, natural,
                    size, bg)

\* every way convert(in, out) can go
l2g_convert(in, out) ==
    LET natural == NaturalOf(in)
        width_ == natural[1]
        height_ == natural[2]
        scale == FloatDiv(U32ToFloat(width), width_)
        size == <<FloatMul(width_, scale), FloatMul(height_, scale)>>
        bg == IF background
              THEN <<FloatMul(width_, scale), FloatMul(height_, scale)>>
              ELSE NoSize
    IN  {l2g_convertAs(o, natural, size, bg) : o \in l2g_Outcomes}

\* every state convert(lottieName) can leave when started in a state of sts
l2g_convertLottie(sts, lottieName) ==
    LET gifName == SubSeq(lottieName, 1, Len(lottieName) - 4) \o <<"g", "i", "f">>
    IN  {Converted(st, lottieName, gifName, res) :
           st \in sts, res \in l2g_convert(lottieName, gifName)}

RECURSIVE l2g_handleDirectory(_, _)
RECURSIVE l2g_entry(_, _, _)
RECURSIVE l2g_readdir(_, _, _)
l2g_handleDirectory(sts, path) ==
    IF path \notin Readable THEN [ret |-> FALSE, sts |-> sts]
    ELSE [ret |-> TRUE, sts |-> l2g_readdir(sts, path, Listing(path))]

\* the body of the while loop, for the entry readdir returned
l2g_entry(sts, path, ent) ==
    IF Head(ent.name) = "." \/ Head(ent.name) = "$" THEN sts
    ELSE IF ent.dir
    THEN l2g_handleDirectory(sts, path \o Slash \o ent.name).sts
    ELSE IF ~l2g_validate(ent.name) THEN sts
    ELSE l2g_convertLottie(sts, path \o Slash \o ent.name)

\* the while loop over the entries readdir has not returned yet (the entries
\* that leave the state alone taken together, as in readdir above)
l2g_readdir(sts, path, todo) ==
    IF todo = {} THEN sts
    ELSE LET after == [ent \in todo |-> l2g_entry(sts, path, ent)]
             idle == {ent \in todo : after[ent] = sts}
         IN  IF idle # {} THEN l2g_readdir(sts, path, todo \ idle)
             ELSE UNION {l2g_readdir(after[ent], path, todo \ {ent}) :
                           ent \in todo}

\* v <= 0 for a uint32_t v: no uint32_t is below 0
l2g_notPositive(v) == v = 0

\* one turn of the loop over argv in setup
l2g_setup_arg ==
    /\ prog = "lottie2gif"
    /\ pc = "args"
    /\ LET p == argv[i]
           hasArg == i + 1 <= Len(argv)
           p_arg == IF hasArg THEN argv[i + 1] ELSE NULL
           j == IF hasArg THEN i + 1 ELSE i
           opt == IF Len(p) >= 2 THEN p[2] ELSE ""
           x == strchr(p_arg, "x")
           bgColor == strtol16(p_arg)
       IN  IF Head(p) # "-"
           THEN /\ inputs' = Append(inputs, p)
                /\ Continue(i)
                /\ UNCHANGED <<cfg, warned>>
           ELSE CASE opt = "r" ->
                       IF p_arg = NULL
                       THEN Return(1, j) /\ UNCHANGED <<cfg, inputs, warned>>
                       ELSE IF x = 0
                       THEN Return(1, j) /\ UNCHANGED <<cfg, inputs, warned>>
                       ELSE /\ width' = atoi(p_arg)
                            /\ height' = atoi(From(p_arg, x))
                            /\ IF \/ l2g_notPositive(atoi(p_arg))
                                  \/ l2g_notPositive(atoi(From(p_arg, x)))
                               THEN Return(1, j)
                               ELSE Continue(j)
                            /\ UNCHANGED <<fps, r, g, b, background,
                                           outputFile, inputs, warned>>
                  [] opt = "f" ->
                       IF p_arg = NULL
                       THEN Return(1, j) /\ UNCHANGED <<cfg, inputs, warned>>
                       ELSE /\ fps' = atoi(p_arg)
                            /\ Continue(j)
                            /\ UNCHANGED <<width, height, r, g, b, background,
                                           outputFile, inputs, warned>>
                  [] opt = "b" ->
                       IF p_arg = NULL
                       THEN Return(1, j) /\ UNCHANGED <<cfg, inputs, warned>>
                       ELSE /\ r' = (bgColor \div 65536) % 256
                            /\ g' = (bgColor \div 256) % 256
                            /\ b' = bgColor % 256
                            /\ background' = TRUE
                            /\ Continue(j)
                            /\ UNCHANGED <<width, height, fps, outputFile,
                                           inputs, warned>>
                  [] OTHER ->
                       /\ warned' = warned + 1
                       /\ Continue(j)
                       /\ UNCHANGED <<cfg, inputs>>
    /\ UNCHANGED <<prog, argv, usage, run>>

\* no input on the command line: the usage text, and 0
l2g_setup_help ==
    /\ prog = "lottie2gif"
    /\ pc = "inputs"
    /\ inputs = <<>>
    /\ usage' = TRUE
    /\ pc' = "done"
    /\ ret' = 0
    /\ UNCHANGED <<prog, argv, i, cfg, inputs, warned, run>>

\* one turn of the loop over the inputs in setup; break leaves the loop
l2g_setup_input ==
    /\ prog = "lottie2gif"
    /\ pc = "inputs"
    /\ k <= Len(inputs)
    /\ LET input == inputs[k]
           path == l2g_realPath(input)
           walk == l2g_handleDirectory({Here}, path)
       IN  IF path = NULL
           THEN k' = k + 1 /\ UNCHANGED <<open, handed, last>>
           ELSE IF l2g_isDirectory(path)
           THEN /\ \E s \in walk.sts : Becomes(s)
                /\ k' = IF walk.ret THEN k + 1 ELSE Len(inputs) + 1
           ELSE IF ~l2g_validate(input)
           THEN k' = k + 1 /\ UNCHANGED <<open, handed, last>>
           ELSE /\ \E s \in l2g_convertLottie({Here}, input) : Becomes(s)
                /\ k' = k + 1
    /\ UNCHANGED <<prog, argv, i, cfg, inputs, warned, usage, pc, ret>>

\* the loop over the inputs is over: 0
l2g_setup_return ==
    /\ prog = "lottie2gif"
    /\ pc = "inputs"
    /\ inputs # <<>>
    /\ k > Len(inputs)
    /\ pc' = "done"
    /\ ret' = 0
    /\ UNCHANGED <<prog, argv, i, cfg, inputs, warned, usage, run>>

Next ==
    \/ setup_arg
    \/ setup_help
    \/ setup_input
    \/ setup_return
    \/ l2g_setup_arg
    \/ l2g_setup_help
    \/ l2g_setup_input
    \/ l2g_setup_return

Spec == Init /\ [][Next]_vars


\* ----------------------------------------------------------- properties
Occ(seq, t) == Cardinality({n \in 1..Len(seq) : seq[n] = t})

RECURSIVE Copies(_, _)
Copies(bag, pairs) ==
    IF pairs = {} THEN 0
    ELSE LET q == CHOOSE q \in pairs : TRUE
         IN  CopiesIn(q, bag) + Copies(bag, pairs \ {q})

\* how often convert was called with path as its input
InCount(bag, path) == Copies(bag, {q \in BagToSet(bag) : q[1] = path})

\* the inputs the loop over the inputs is through with
Processed == SubSeq(inputs, 1, k - 1)

ParsedAll == i > Len(argv)

EndsInJson(name) ==
    /\ Len(name) > 5
    /\ SubSeq(name, Len(name) - 4, Len(name)) = <<".", "j", "s", "o", "n">>

\* name with its trailing .json replaced by .gif
GifFor(name) == SubSeq(name, 1, Len(name) - 5) \o <<".", "g", "i", "f">>

pE == pS \o Slash \o nE
pC == pS \o Slash \o nC

TreeFiles ==
    UNION {{p \o Slash \o e.name : e \in {x \in Listing(p) : ~x.dir}} :
             p \in Directories}

\* the .json files under path met by descending through the directories that
\* can be opened, entries whose first character is in hidden left out
RECURSIVE Reachable(_, _)
Reachable(path, hidden) ==
    IF path \notin Readable THEN {}
    ELSE LET seen == {e \in Listing(path) : Head(e.name) \notin hidden}
         IN  {path \o Slash \o e.name :
                e \in {x \in seen : ~x.dir /\ EndsInJson(x.name)}}
             \cup UNION {Reachable(path \o Slash \o e.name, hidden) :
                           e \in {x \in seen : x.dir}}

IsOption(p, letters) == Head(p) = "-" /\ Len(p) >= 2 /\ p[2] \in letters

\* C1: whenever init succeeded in a call of convert, term is called exactly
\* once before it returns, on every exit path; so no session is ever left
\* open, and none is open when a conversion starts.
C1_SessionAlwaysReleased ==
    /\ Len(last.calls) > 1 => Count(last.calls, "term") = 1
    /\ open = 0
    /\ last.before = 0

\* C2: every input of the list is attempted, in order: whatever became of
\* the inputs before it (unresolved, a directory that cannot be opened, not
\* eligible, a failed conversion), once the loop is over every Lottie file
\* and every directory of the list went to the conversion driver as often
\* as the list names it.
C2_EveryInputAttempted ==
    pc = "done" /\ ParsedAll /\ inputs # <<>> =>
        /\ InCount(handed, tA) = Occ(inputs, tA)
        /\ InCount(handed, pE) = Occ(inputs, tD)

\* the turn of the argv loop that parses -r ARG, as C3 tells it
C3_Step ==
    pc = "args" /\ IsOption(argv[i], {"r"}) /\ i < Len(argv) =>
        LET arg == argv[i + 1]
            x == strchr(arg, "x")
            bad == x = 0 \/ atoi(arg) <= 0 \/ atoi(From(arg, x)) <= 0
        IN  IF bad
            THEN pc' = "done" /\ ret' = 1 /\ handed' = EmptyBag
            ELSE /\ pc' # "done"
                 /\ width' = atoi(arg)
                 /\ height' = atoi(From(arg, x))

\* C3: -r ARG makes setup return a failure code, nothing converted, when ARG
\* has no x or a dimension that is not positive; otherwise width and height
\* become the two integers.
C3_ResolutionChecked == [][C3_Step]_vars

\* the turn of the argv loop that meets an option without its argument, as
\* C4 tells it
C4_Step ==
    pc = "args" /\ IsOption(argv[i], {"r", "f", "b", "o"}) /\ i = Len(argv) =>
        pc' = "done" /\ ret' > 0 /\ handed' = EmptyBag

\* C4: -r, -f, -b or -o as the last token of the command line, its argument
\* missing, makes setup return a failure code at once; no input is resolved
\* or converted.
C4_MissingArgumentAborts == [][C4_Step]_vars

\* C5: convert gets the -o override as its output path only for the sole
\* input of the run; in every other case the input path with .json replaced
\* by .gif; so two input files never get the same output path.
C5_OutputPath ==
    /\ \A q \in BagToSet(handed) :
         q[2] = IF outputFile # <<>> /\ inputs = <<q[1]>> THEN outputFile
                ELSE GifFor(q[1])
    /\ \A q1, q2 \in BagToSet(handed) : q1[1] # q2[1] => q1[2] # q2[2]

\* the turn of the input loop that walks a directory: every .json file
\* reached goes to convert once more, no other file does
C6_Step(hidden) ==
    pc = "inputs" /\ k <= Len(inputs) /\ realPath(inputs[k]) \in Directories =>
        \A f \in TreeFiles \cup {tA} :
            InCount(handed', f) =
              InCount(handed, f)
              + (IF f \in Reachable(realPath(inputs[k]), hidden) THEN 1 ELSE 0)

\* C6 as claimed: handleDirectory hands to convert every .json file it
\* reaches through the directories it can open whose names do not begin with
\* ".", each once, in whatever order readdir returns the entries, and leaves
\* out dot entries only.
C6_OnlyDotEntriesLeftOut == [][C6_Step({"."})]_vars

\* C6 as amended: the same, except that lottie2gif.cpp also leaves out the
\* entries whose names begin with "$".
C6_WalkConvertsEachOnce ==
    [][C6_Step(IF prog = "lottie2gif" THEN {".", "$"} ELSE {"."})]_vars

C6_Witness ==
    /\ pc = "done"
    /\ inputs = <<tD>>
    /\ InCount(handed, pE) = 1
    /\ InCount(handed, pS \o Slash \o <<".", "h", ".", "j", "s", "o", "n">>) = 0

\* C7: once the arguments are parsed the exit code is 0: with no input the
\* usage text is printed and nothing is converted, and no outcome of any
\* input changes it.
C7_ExitCodeZero ==
    ParsedAll =>
        /\ pc # "crashed"
        /\ pc = "done" => ret = 0
        /\ pc = "done" /\ inputs = <<>> => usage /\ handed = EmptyBag

C7_Witness ==
    /\ pc = "done"
    /\ ret = 0
    /\ Len(inputs) > 1
    /\ handed # EmptyBag
    /\ ~last.ok

\* C8: for a positive target the size set on the animation is the natural
\* size times min(width / w, height / h): neither side is above its target,
\* one of them is on it, natural 100 x 50 in 200 x 200 gives 200 x 100, and
\* the background rectangle has the size set.
C8_ScaledIntoTarget ==
    last.applied # NoSize /\ width > 0 /\ height > 0 =>
        LET tw == U32ToFloat(width)
            th == U32ToFloat(height)
        IN  /\ ~FloatLess(tw, last.applied[1])
            /\ ~FloatLess(th, last.applied[2])
            /\ last.applied[1] = tw \/ last.applied[2] = th
            /\ last.natural = <<100, 50>> /\ width = 200 /\ height = 200 =>
                 last.applied = <<U32ToFloat(200), U32ToFloat(100)>>
            /\ last.bg # NoSize => last.bg = last.applied

\* the inputs C9 tells: a token that is no option is an input unless it is
\* the argument of -r, -f, -b or -o
RECURSIVE C9_Inputs(_)
C9_Inputs(tokens) ==
    IF tokens = <<>> THEN <<>>
    ELSE IF Head(Head(tokens)) # "-"
    THEN <<Head(tokens)>> \o C9_Inputs(Tail(tokens))
    ELSE IF IsOption(Head(tokens), {"r", "f", "b", "o"})
    THEN C9_Inputs(SubSeq(tokens, 3, Len(tokens)))
    ELSE C9_Inputs(Tail(tokens))

\* C9: an option nobody knows only warns, and the token after it is parsed
\* as any other: when parsing is over, the input list holds, in order, every
\* token that is no option and no argument of -r, -f, -b or -o.
C9_UnknownOptionOnlyWarns ==
    ParsedAll /\ pc # "crashed" => inputs = C9_Inputs(argv)

NamedCalls == {"init", "load", "getSize", "setSize", "background", "save",
               "sync", "term"}

IsNamed(c) == c \in NamedCalls

Canon ==
    <<"init", "load", "getSize", "setSize">>
    \o (IF background THEN <<"background">> ELSE <<>>)
    \o <<"save", "sync">>

====
